---- MODULE Spec2Model ----
(***************************************************************************)
(* Model of src/app.py: the rate-limited market-cap fetcher, the two       *)
(* passes over the basket, the aggregation into TOTAL / TOTAL2 / OTHERS    *)
(* and the moving-average trend labels.                                    *)
(*                                                                         *)
(* One run of the script is modelled, starting from a cold st.cache_data   *)
(* cache.  Money is held in tenths of a unit so that the 1.10 buffer of    *)
(* TOTAL is exact; ratios and their moving averages are exact rationals.   *)
(* Timestamps are counted in ticks, TicksPerDay of them to a calendar day, *)
(* in place of milliseconds.  The jitter random.uniform(0, 1) lies in      *)
(* [0, 1) and is not drawn: delay is the deterministic part of the sleep.  *)
(***************************************************************************)
EXTENDS Integers, Sequences, FiniteSets, TLC

\* ---------------------------------------------------------------- bounds
\* how many coins of TOP_10_COINS the basket holds
BasketSize == 2
\* how many calendar days the provider's long history covers
Days == 31
\* ticks of the timestamp clock in one calendar day
TicksPerDay == 2

\* ------------------------------------------------------ program constants
MaxRetries == 5
BackoffFactor == 1
RateLimitStatus == 429
BufferPercent == 110
ShortWindow == 10
LongWindow == 30
RatioScale == 100
\* the value of the local `response` before requests.get has returned once
Unbound == 0
\* status of a response that raise_for_status accepts
StatusOk == 200

AllCoins ==
  << "bitcoin", "ethereum", "solana", "ripple", "binancecoin",
     "cardano", "dogecoin", "shiba-inu", "polkadot", "chainlink" >>

TOP_10_COINS == SubSeq(AllCoins, 1, BasketSize)

Basket == { TOP_10_COINS[k] : k \in 1..Len(TOP_10_COINS) }

\* statuses for which response.raise_for_status() raises HTTPError
ErrorStatuses == { 404, RateLimitStatus, 500 }

\* ------------------------------------------------------- small arithmetic
RECURSIVE Pow2(_)
Pow2(n) == IF n = 0 THEN 1 ELSE 2 * Pow2(n - 1)

RECURSIVE Gcd(_, _)
Gcd(a, b) == IF b = 0 THEN a ELSE Gcd(b, a % b)

Lcm(a, b) == (a \div Gcd(a, b)) * b

RECURSIVE LcmOf(_)
LcmOf(S) ==
  IF S = {} THEN 1
  ELSE LET x == CHOOSE y \in S : TRUE IN Lcm(x, LcmOf(S \ {x}))

RECURSIVE SumOf(_, _)
\* sum of f[x] over x in S
SumOf(S, f) ==
  IF S = {} THEN 0
  ELSE LET x == CHOOSE y \in S : TRUE IN f[x] + SumOf(S \ {x}, f)

MaxOf(S) == CHOOSE x \in S : \A y \in S : y <= x

\* ------------------------------------------------ the provider's responses
Ts(day, tick) == day * TicksPerDay + tick

\* one sample a day, of value 1 and then 2 over the last five days
RisingSamples(lo, hi) ==
  [ k \in 1..(hi - lo + 1) |->
      << Ts(lo + k - 1, 0), IF lo + k - 1 > hi - 5 THEN 2 ELSE 1 >> ]

\* a short history that overhangs the long one, with two samples on its first day
ShortSamples ==
  << << Ts(Days - 1, 0), 1 >>, << Ts(Days - 1, TicksPerDay - 1), 2 >>,
     << Ts(Days, 0), 1 >>, << Ts(Days + 1, 0), 2 >> >>

\* a history that shares no day with the others
LateSamples == << << Ts(Days + 3, 0), 1 >> >>

SampleLists == { << >>, RisingSamples(1, Days), ShortSamples, LateSamples }

\* a decoded JSON body: the keys of the object and its market_caps list
Bodies ==
  { [ keys |-> {}, market_caps |-> << >> ],
    [ keys |-> {"status"}, market_caps |-> << >> ] }
  \cup { [ keys |-> {"prices", "market_caps", "total_volumes"}, market_caps |-> s ] :
           s \in SampleLists }

NoneData == [ kind |-> "None", keys |-> {}, market_caps |-> << >> ]

JsonData(b) == [ kind |-> "json", keys |-> b.keys, market_caps |-> b.market_caps ]

\* ------------------------------------------------------ Coin Series Loader
\* pd.to_datetime(ts, unit=...).dt.date: the calendar day of a timestamp
ToDate(ts) == ts \div TicksPerDay

\* market caps in tenths of a unit
Tenths(v) == v * 10

\* DataFrame(market_caps) -> date column -> drop_duplicates(keep='last') -> set_index
ParseSeries(samples) ==
  LET dates == { ToDate(samples[k][1]) : k \in 1..Len(samples) }
      lastAt(d) == MaxOf({ k \in 1..Len(samples) : ToDate(samples[k][1]) = d })
  IN  [ d \in dates |-> Tenths(samples[lastAt(d)][2]) ]

NoneSeries == [ kind |-> "None", series |-> << >> ]

SomeSeries(s) == [ kind |-> "series", series |-> s ]

Absent == [ kind |-> "absent", series |-> << >> ]

\* `if data:` of fetch_coin_market_data
Truthy(d) == d.kind = "json" /\ d.keys # {}

\* data['market_caps'] raises KeyError
RaisesKeyError(d) == Truthy(d) /\ "market_caps" \notin d.keys

\* what fetch_coin_market_data returns when it returns
CoinSeriesOf(d) ==
  IF Truthy(d) THEN SomeSeries(ParseSeries(d.market_caps)) ELSE NoneSeries

\* `market_cap_series is not None and not market_cap_series.empty`
Usable(r) == r.kind = "series" /\ DOMAIN r.series # {}

\* ------------------------------------------------------------- data frames
\* a frame: its index (dates), and per column the values at the dates where
\* the column is not NaN
Frame(ix, cols) == [ index |-> ix, col |-> cols ]

Columns(f) == DOMAIN f.col

EmptyFrame == Frame({}, << >>)

\* pd.DataFrame(dict of series): the union of the indexes, NaN where a series has no value
FrameOfDict(dict) ==
  Frame(UNION { DOMAIN dict[c] : c \in DOMAIN dict }, dict)

\* dropna(how='all'): every row of the union holds a value, so every row stays
DropNaAll(f) == f

\* DataFrame.dropna(): keep the rows without any NaN
DropNa(f) ==
  LET keep == { d \in f.index : \A c \in Columns(f) : d \in DOMAIN f.col[c] }
  IN  Frame(keep, [ c \in Columns(f) |-> [ d \in keep |-> f.col[c][d] ] ])

\* df.merge(series.to_frame(), left_index=True, right_index=True, how='left')
LeftMerge(f, name, series) ==
  Frame(f.index,
        (name :> [ d \in f.index \cap DOMAIN series |-> series[d] ]) @@ f.col)

\* df[name] = values
WithColumn(f, name, values) == Frame(f.index, (name :> values) @@ f.col)

\* df[cols].sum(axis=1): the sum of a row over the columns, NaN skipped
RowSum(f, cols) ==
  [ d \in f.index |->
      LET have == { c \in cols : d \in DOMAIN f.col[c] }
      IN  SumOf(have, [ c \in have |-> f.col[c][d] ]) ]

\* the basket's sum without its buffer
TotalUnbuffered(f) == RowSum(f, Columns(f))

\* combined_df.sum(axis=1) * 1.10
TotalOf(f) ==
  [ d \in f.index |-> (RowSum(f, Columns(f))[d] * BufferPercent) \div 100 ]

\* df[a] - df[b]: NaN where either is
Minus(f, a, b) ==
  [ d \in DOMAIN f.col[a] \cap DOMAIN f.col[b] |-> f.col[a][d] - f.col[b][d] ]

\* -------------------------------------------------------- Indicator Engine
\* the position of date d in the index, counted from 1
Rank(ix, d) == Cardinality({ e \in ix : e <= d })

\* the missing value of a rolling mean
NaN == [ nan |-> TRUE, sum |-> 0, n |-> 1 ]

\* values.rolling(window=w).mean() at date d: the mean sum / n, or NaN on the
\* first w - 1 rows
RollingMeanAt(values, ix, w, d) ==
  LET window == { e \in ix : e <= d /\ Rank(ix, e) > Rank(ix, d) - w }
  IN  IF Rank(ix, d) < w \/ ~(window \subseteq DOMAIN values) THEN NaN
      ELSE [ nan |-> FALSE, sum |-> SumOf(window, values), n |-> w ]

RollingMean(values, ix, w) == [ d \in ix |-> RollingMeanAt(values, ix, w, d) ]

\* a > b on floats: False when either side is NaN
Greater(a, b) == ~a.nan /\ ~b.nan /\ a.sum * b.n > b.sum * a.n

\* the common denominator of the ratio columns of f
RatioDen(f) == LcmOf({ f.col["TOTAL"][d] : d \in DOMAIN f.col["TOTAL"] })

\* (df[name] / df['TOTAL']) * 100, in units of 1 / RatioDen(f)
RatioColumn(f, name) ==
  [ d \in DOMAIN f.col[name] \cap DOMAIN f.col["TOTAL"] |->
      RatioScale * f.col[name][d] * (RatioDen(f) \div f.col["TOTAL"][d]) ]

\* series.iloc[-1]
Last(ix) == MaxOf(ix)

\* "Bullish" if sma_short.iloc[-1] > sma_long.iloc[-1] else "Bearish"
TrendOf(values, ix) ==
  IF Greater(RollingMeanAt(values, ix, ShortWindow, Last(ix)),
             RollingMeanAt(values, ix, LongWindow, Last(ix)))
  THEN "Bullish" ELSE "Bearish"

NoSummary ==
  [ emitted |-> FALSE, total_trend |-> "", t2t_trend |-> "", others_trend |-> "" ]

\* summary_df of the frame with TOTAL2 and OTHERS in it
SummaryOf(f) ==
  [ emitted      |-> TRUE,
    total_trend  |-> TrendOf(f.col["TOTAL"], f.index),
    t2t_trend    |-> TrendOf(RatioColumn(f, "TOTAL2"), f.index),
    others_trend |-> TrendOf(RatioColumn(f, "OTHERS"), f.index) ]

\* `if not df.empty`, the test for the primary asset left out
AvailableWithoutPrimary(f) == f.index # {}

\* `if not df.empty and 'bitcoin' in df.columns`
IndicatorsAvailable(f) == f.index # {} /\ "bitcoin" \in Columns(f)

\* the frame after lines 118-129: TOTAL, one column per loaded coin, SUM_TOP_10
CombinedFrame(total, coins) ==
  LET RECURSIVE Merged(_)
      Merged(k) ==
        IF k = 0 THEN Frame(DOMAIN total, ("TOTAL" :> total))
        ELSE IF TOP_10_COINS[k] \in DOMAIN coins
             THEN LeftMerge(Merged(k - 1), TOP_10_COINS[k], coins[TOP_10_COINS[k]])
             ELSE Merged(k - 1)
      clean == DropNa(Merged(Len(TOP_10_COINS)))
  IN  WithColumn(clean, "SUM_TOP_10", RowSum(clean, Basket \cap Columns(clean)))

\* TOTAL2 taken from the basket's sum in place of TOTAL
Total2OfBasket(f) == Minus(f, "SUM_TOP_10", "bitcoin")

\* df['TOTAL2'] = df['TOTAL'] - df['bitcoin']
Total2(f) == Minus(f, "TOTAL", "bitcoin")

\* df['OTHERS'] = df['TOTAL'] - df['SUM_TOP_10']
Others(f) == Minus(f, "TOTAL", "SUM_TOP_10")

\* ------------------------------------------------------------ Backoff Fetcher
\* every error status taken for a rate limit
IsAnyError(status) == status >= 400

\* `response.status_code == 429`
IsRateLimited(status) == status = RateLimitStatus

\* backoff_factor * (2 ** retries)
DelayOf(r) == BackoffFactor * Pow2(r)

\* ------------------------------------------------------------------ state
VARIABLES
  pc,          \* where the script is: agg_loop, main_loop, indicators, done, stopped, crashed
  i,           \* the loop's position in TOP_10_COINS
  fpc,         \* where the current iteration is: call, try, backoff, returned
  retries,     \* fetch_data_with_backoff: retries
  response,    \* fetch_data_with_backoff: status of `response`, or Unbound
  delay,       \* fetch_data_with_backoff: delay, without its jitter
  data,        \* what fetch_data_with_backoff returned
  reported,    \* the st.error of fetch_data_with_backoff: "", error, max_retries
  cache,       \* st.cache_data of fetch_coin_market_data
  all_coin_market_caps,
  total_market_cap,
  individual_coin_market_caps,
  df,
  summary,     \* summary_df
  shown,       \* what the script ended on: an st.error, the summary, or an exception
  attempts,    \* requests.get calls of the current fetch
  stale,       \* the handler has read the status of an earlier attempt's response
  slept,       \* time.sleep has run since the last requests.get
  anyReq       \* requests.get has been called in this run

vars ==
  << pc, i, fpc, retries, response, delay, data, reported, cache,
     all_coin_market_caps, total_market_cap, individual_coin_market_caps,
     df, summary, shown, attempts, stale, slept, anyReq >>

fetchVars == << retries, response, delay, data, reported, attempts, stale >>

tableVars == << df, summary, shown >>

N == Len(TOP_10_COINS)

InLoop == pc \in { "agg_loop", "main_loop" } /\ i <= N

coin == TOP_10_COINS[i]

Init ==
  /\ pc = "agg_loop"
  /\ i = 1
  /\ fpc = "call"
  /\ retries = 0
  /\ response = Unbound
  /\ delay = 0
  /\ data = NoneData
  /\ reported = ""
  /\ cache = [ c \in Basket |-> Absent ]
  /\ all_coin_market_caps = << >>
  /\ total_market_cap = NoneSeries
  /\ individual_coin_market_caps = << >>
  /\ df = EmptyFrame
  /\ summary = NoSummary
  /\ shown = ""
  /\ attempts = 0
  /\ stale = FALSE
  /\ slept = FALSE
  /\ anyReq = FALSE

\* the locals of fetch_data_with_backoff, as a call finds them
FreshFetch ==
  /\ retries' = 0
  /\ response' = Unbound
  /\ delay' = 0
  /\ data' = NoneData
  /\ reported' = ""
  /\ attempts' = 0
  /\ stale' = FALSE

\* the series r that fetch_coin_market_data returned is kept if it is usable,
\* and the loop moves on: lines 72-73 and 70, or 110-111 and 108
KeepAndAdvance(r) ==
  /\ IF pc = "agg_loop"
     THEN /\ all_coin_market_caps' =
               IF Usable(r) THEN (coin :> r.series) @@ all_coin_market_caps
               ELSE all_coin_market_caps
          /\ UNCHANGED individual_coin_market_caps
     ELSE /\ individual_coin_market_caps' =
               IF Usable(r) THEN (coin :> r.series) @@ individual_coin_market_caps
               ELSE individual_coin_market_caps
          /\ UNCHANGED all_coin_market_caps
  /\ i' = i + 1
  /\ fpc' = "call"
  /\ FreshFetch
  /\ UNCHANGED << pc, total_market_cap, tableVars >>

\* an iteration that goes on to the next coin without pausing
LoopBodyUnpaced(r) ==
  /\ KeepAndAdvance(r)
  /\ UNCHANGED slept

\* the rest of an iteration once fetch_coin_market_data has returned r, with
\* its time.sleep(0.5): lines 72-74, or 110-112
LoopBody(r) ==
  /\ KeepAndAdvance(r)
  /\ slept' = TRUE

\* an unhandled exception ends the script
Crash(exception) ==
  /\ pc' = "crashed"
  /\ shown' = exception
  /\ UNCHANGED << i, fpc, cache, all_coin_market_caps, total_market_cap,
                  individual_coin_market_caps, df, summary, slept >>

\* fetch_coin_market_data(coin_id) is answered by st.cache_data
CacheHit ==
  /\ InLoop /\ fpc = "call"
  /\ cache[coin].kind # "absent"
  /\ LoopBody(cache[coin])
  /\ UNCHANGED << cache, anyReq >>

\* st.cache_data holds no entry for coin_id, or one older than ttl: the body runs
CacheMiss ==
  /\ InLoop /\ fpc = "call"
  /\ cache' = [ cache EXCEPT ![coin] = Absent ]
  /\ fpc' = "try"
  /\ FreshFetch
  /\ UNCHANGED << pc, i, all_coin_market_caps, total_market_cap,
                  individual_coin_market_caps, tableVars, slept, anyReq >>

CanTry == InLoop /\ fpc = "try" /\ retries < MaxRetries

\* the handler's rate-limit branch, lines 40-41: the sleep is BackoffSleep
RateLimitBranch ==
  /\ delay' = DelayOf(retries)
  /\ fpc' = "backoff"
  /\ UNCHANGED << data, reported >>

\* the handler's other branch, lines 45-46
ErrorBranch ==
  /\ reported' = "error"
  /\ data' = NoneData
  /\ fpc' = "returned"
  /\ UNCHANGED delay

\* requests.get returns a response that raise_for_status accepts (lines 35-37),
\* fetch_coin_market_data builds the series (lines 56-62), st.cache_data keeps
\* it, and the iteration ends
AttemptOk ==
  /\ CanTry
  /\ anyReq' = TRUE
  /\ \E b \in Bodies :
       IF RaisesKeyError(JsonData(b))
       THEN \* data['market_caps'] of a body without that key: line 57
            /\ Crash("KeyError")
            /\ response' = StatusOk
            /\ data' = JsonData(b)
            /\ attempts' = attempts + 1
            /\ UNCHANGED << retries, delay, reported, stale >>
       ELSE /\ cache' = [ cache EXCEPT ![coin] = CoinSeriesOf(JsonData(b)) ]
            /\ LoopBody(CoinSeriesOf(JsonData(b)))

\* requests.get returns a response of an error status: lines 35-36 and the handler
AttemptHttpError ==
  /\ CanTry
  /\ \E s \in ErrorStatuses :
       /\ response' = s
       /\ IF IsRateLimited(s) THEN RateLimitBranch ELSE ErrorBranch
  /\ attempts' = attempts + 1
  /\ slept' = FALSE
  /\ anyReq' = TRUE
  /\ UNCHANGED << pc, i, retries, stale, cache, all_coin_market_caps,
                  total_market_cap, individual_coin_market_caps, tableVars >>

\* requests.get raises before any response: `response` keeps what it held
AttemptTransportError ==
  /\ CanTry
  /\ attempts' = attempts + 1
  /\ anyReq' = TRUE
  /\ UNCHANGED << retries, response >>
  /\ IF response = Unbound
     THEN /\ Crash("UnboundLocalError")
          /\ UNCHANGED << delay, data, reported, stale >>
     ELSE /\ stale' = TRUE
          /\ slept' = FALSE
          /\ IF IsRateLimited(response) THEN RateLimitBranch ELSE ErrorBranch
          /\ UNCHANGED << pc, i, cache, all_coin_market_caps, total_market_cap,
                          individual_coin_market_caps, tableVars >>

\* time.sleep(delay); retries += 1: lines 42-43
BackoffSleep ==
  /\ InLoop /\ fpc = "backoff"
  /\ slept' = TRUE
  /\ retries' = retries + 1
  /\ fpc' = "try"
  /\ UNCHANGED << pc, i, response, delay, data, reported, attempts, stale,
                  cache, all_coin_market_caps, total_market_cap,
                  individual_coin_market_caps, tableVars, anyReq >>

\* the while condition fails: lines 47-48
MaxRetriesExceeded ==
  /\ InLoop /\ fpc = "try" /\ retries >= MaxRetries
  /\ reported' = "max_retries"
  /\ data' = NoneData
  /\ fpc' = "returned"
  /\ UNCHANGED << pc, i, retries, response, delay, attempts, stale, cache,
                  all_coin_market_caps, total_market_cap,
                  individual_coin_market_caps, tableVars, slept, anyReq >>

\* fetch_data_with_backoff has returned None: fetch_coin_market_data returns
\* None (line 62), st.cache_data keeps it, and the iteration ends
ReturnNone ==
  /\ InLoop /\ fpc = "returned"
  /\ cache' = [ cache EXCEPT ![coin] = CoinSeriesOf(data) ]
  /\ LoopBody(CoinSeriesOf(data))
  /\ UNCHANGED anyReq

\* what fetch_aggregated_total_market_cap returns once its loop is over: lines 76-89
AggregatedTotal(dict) ==
  IF DOMAIN dict = {} THEN NoneSeries
  ELSE LET combined_df == DropNa(FrameOfDict(dict))
       IN  IF combined_df.index = {} THEN NoneSeries
           ELSE SomeSeries(TotalOf(combined_df))

\* fetch_aggregated_total_market_cap returns, and the script tests what it got:
\* lines 76-89 and 101-105
Aggregate ==
  /\ pc = "agg_loop" /\ i > N /\ fpc = "call"
  /\ total_market_cap' = AggregatedTotal(all_coin_market_caps)
  /\ IF ~Usable(total_market_cap')
     THEN /\ pc' = "stopped"
          /\ shown' = "no_market_data"
          /\ UNCHANGED i
     ELSE /\ pc' = "main_loop"
          /\ i' = 1
          /\ UNCHANGED shown
  /\ UNCHANGED << fpc, fetchVars, cache, all_coin_market_caps,
                  individual_coin_market_caps, df, summary, slept, anyReq >>

\* the script's own loop is over: lines 114-129
Combine ==
  /\ pc = "main_loop" /\ i > N /\ fpc = "call"
  /\ IF DOMAIN individual_coin_market_caps = {}
     THEN /\ pc' = "stopped"
          /\ shown' = "no_individual_data"
          /\ UNCHANGED df
     ELSE /\ pc' = "indicators"
          /\ df' = CombinedFrame(total_market_cap.series, individual_coin_market_caps)
          /\ UNCHANGED shown
  /\ UNCHANGED << i, fpc, fetchVars, cache, all_coin_market_caps, total_market_cap,
                  individual_coin_market_caps, summary, slept, anyReq >>

\* the frame with its TOTAL2 and OTHERS columns: lines 133-134
WithComposites(f) ==
  LET g == WithColumn(f, "TOTAL2", Total2(f))
  IN  WithColumn(g, "OTHERS", Others(g))

\* the indicators, or the failure message: lines 132-179
Indicators ==
  /\ pc = "indicators"
  /\ IF IndicatorsAvailable(df)
     THEN IF "bitcoin" \in Columns(df)
          THEN /\ df' = WithComposites(df)
               /\ summary' = SummaryOf(df')
               /\ shown' = "summary"
               /\ pc' = "done"
          ELSE \* df['bitcoin'] of a frame without that column
               /\ pc' = "crashed"
               /\ shown' = "KeyError"
               /\ UNCHANGED << df, summary >>
     ELSE /\ shown' = "indicators_failed"
          /\ pc' = "done"
          /\ UNCHANGED << df, summary >>
  /\ UNCHANGED << i, fpc, fetchVars, cache, all_coin_market_caps, total_market_cap,
                  individual_coin_market_caps, slept, anyReq >>

Next ==
  \/ CacheHit
  \/ CacheMiss
  \/ AttemptOk
  \/ AttemptHttpError
  \/ AttemptTransportError
  \/ BackoffSleep
  \/ MaxRetriesExceeded
  \/ ReturnNone
  \/ Aggregate
  \/ Combine
  \/ Indicators

Spec == Init /\ [][Next]_vars

\* ------------------------------------------------------------------ claims
\* the fetch that is under way has given up after "Max retries exceeded"
Exhausted == fpc = "returned" /\ reported = "max_retries"

\* the script has ended and had built its table
TableBuilt == pc \in { "done", "crashed" } /\ "TOTAL" \in Columns(df)

\* the rows of the table
Rows == df.index

SameValue(values, ix) == \A d \in ix, e \in ix : values[d] = values[e]

\* both rolling means are defined at d and are equal
EqualMeans(values, ix, d) ==
  LET short == RollingMeanAt(values, ix, ShortWindow, d)
      long  == RollingMeanAt(values, ix, LongWindow, d)
  IN  (~short.nan /\ ~long.nan) => short.sum * long.n = long.sum * short.n

\* C1 (as claimed): in a fetch whose failures were all 429 responses, n such
\* responses are followed by n re-issued requests as long as n <= max_retries,
\* the delay before each retry grows strictly, and the fetch gives up with
\* "Max retries exceeded" only once the 429 responses outnumber max_retries,
\* having issued no more than max_retries + 1 requests.
C1_BackoffBound ==
  /\ (Exhausted /\ ~stale) => (retries > MaxRetries /\ attempts - 1 = MaxRetries)
  /\ (fpc = "returned" /\ reported = "error" /\ ~stale) => attempts - 1 = retries
  /\ (fpc = "backoff") =>
        /\ delay = DelayOf(retries)
        /\ retries >= 1 => DelayOf(retries) > DelayOf(retries - 1)
  /\ attempts <= MaxRetries + 1

\* C2: while `response` holds an error status other than 429 the fetch has
\* returned None after reporting the error, no sleep has followed the request
\* and no further request can be issued, however many retries came before.
C2_NonRateLimitFailsFast ==
  (response \in ErrorStatuses \ { RateLimitStatus }) =>
     /\ fpc = "returned"
     /\ data = NoneData
     /\ reported = "error"
     /\ ~slept
     /\ ~CanTry

\* C2 witness: a 404 that follows at least one rate-limit retry ends the fetch
C2_Witness ==
  /\ response = 404 /\ retries >= 1
  /\ fpc = "returned" /\ data = NoneData /\ ~slept

\* C3 (as claimed): a transport exception never has the handler read a status
\* that is not there: the script does not end on an UnboundLocalError, and a
\* transport exception that follows an earlier response ends the fetch with a
\* reported failure, never with another backoff.
C3_TransportGuarded ==
  /\ pc = "crashed" => shown # "UnboundLocalError"
  /\ stale => (fpc = "returned" /\ reported = "error" /\ data = NoneData)

\* C4 (as claimed): no failure of one asset ends the script inside a basket
\* loop, and the script stops without indicators only when the pass that has
\* just ended loaded no asset at all.
C4_FailuresAbsorbed ==
  /\ pc # "crashed"
  /\ (pc = "stopped" /\ shown = "no_market_data") => DOMAIN all_coin_market_caps = {}
  /\ (pc = "stopped" /\ shown = "no_individual_data") =>
        DOMAIN individual_coin_market_caps = {}

\* the table holds the primary asset and at least one date, and a non-primary
\* asset of the basket failed to load in one of the passes
PartialBasket ==
  /\ TableBuilt /\ pc = "done"
  /\ "bitcoin" \in Columns(df) /\ Rows # {}
  /\ \E c \in Basket \ { "bitcoin" } :
       c \notin DOMAIN individual_coin_market_caps \/ c \notin DOMAIN all_coin_market_caps

Total2IsTotalMinusPrimary ==
  /\ "TOTAL2" \in Columns(df)
  /\ DOMAIN df.col["TOTAL2"] = Rows
  /\ \A d \in Rows :
       df.col["TOTAL2"][d] =
         total_market_cap.series[d] - individual_coin_market_caps["bitcoin"][d]

\* C5 (as claimed): with a partial basket OTHERS and OTHERS/TOTAL are omitted,
\* and TOTAL2 is TOTAL minus the primary asset at every remaining date.
C5_OthersOmitted ==
  PartialBasket =>
     /\ "OTHERS" \notin Columns(df)
     /\ summary.others_trend = ""
     /\ Total2IsTotalMinusPrimary

\* C5 (amended): with a partial basket OTHERS is still computed, as TOTAL minus
\* the sum of the assets the script's own pass loaded, its trend is labelled,
\* and TOTAL2 is TOTAL minus the primary asset at every remaining date.
C5_OthersFromLoaded ==
  PartialBasket =>
     /\ "OTHERS" \in Columns(df)
     /\ DOMAIN df.col["OTHERS"] = Rows
     /\ \A d \in Rows :
          df.col["OTHERS"][d] =
            total_market_cap.series[d]
              - SumOf(DOMAIN individual_coin_market_caps,
                      [ c \in DOMAIN individual_coin_market_caps |->
                          individual_coin_market_caps[c][d] ])
     /\ summary.others_trend \in { "Bullish", "Bearish" }
     /\ Total2IsTotalMinusPrimary

\* C5 witness: the table of a run in which a non-primary asset was not loaded
C5_Witness ==
  /\ PartialBasket
  /\ "ethereum" \notin DOMAIN individual_coin_market_caps
  /\ summary.emitted

\* the table was built without the primary asset, from at least one other
\* asset, and has rows
PrimaryMissing ==
  /\ TableBuilt
  /\ "bitcoin" \notin DOMAIN individual_coin_market_caps
  /\ DOMAIN individual_coin_market_caps # {}
  /\ Rows # {}

\* C6 (as claimed): without the primary asset TOTAL still gets its moving
\* averages and its trend label.
C6_TotalStillLabelled ==
  PrimaryMissing => (summary.emitted /\ summary.total_trend \in { "Bullish", "Bearish" })

\* C6 (amended): without the primary asset no composite is computed at all:
\* the script ends on its failure message with no summary, no trend label for
\* TOTAL either, and neither TOTAL2 nor OTHERS in the table.
C6_NothingLabelled ==
  PrimaryMissing =>
     /\ pc = "done"
     /\ shown = "indicators_failed"
     /\ summary = NoSummary
     /\ Columns(df) \cap { "TOTAL2", "OTHERS" } = {}

\* C6 witness: a finished run whose table has TOTAL and ethereum but no bitcoin
C6_Witness ==
  /\ PrimaryMissing /\ pc = "done"
  /\ "ethereum" \in Columns(df)

\* C7 (as claimed): a label is emitted only when the table has long_window
\* dates, and then it is Bullish exactly when the short mean is strictly above
\* the long one at the latest date.
C7_InsufficientHistory ==
  summary.emitted =>
     /\ Cardinality(Rows) >= LongWindow
     /\ summary.total_trend = "Bullish" <=>
          Greater(RollingMeanAt(df.col["TOTAL"], Rows, ShortWindow, Last(Rows)),
                  RollingMeanAt(df.col["TOTAL"], Rows, LongWindow, Last(Rows)))

\* C8: the dates of TOTAL lie in the dates of every series it was summed from
\* and its values are the buffered sums of their values; the rows of the final
\* table lie in the dates of TOTAL and of every loaded series, every column has
\* a value at every row, and the values are those of the inputs.
C8_IntersectionLaw ==
  /\ Usable(total_market_cap) =>
        \A d \in DOMAIN total_market_cap.series :
           /\ \A c \in DOMAIN all_coin_market_caps : d \in DOMAIN all_coin_market_caps[c]
           /\ total_market_cap.series[d] * 100 =
                BufferPercent *
                  SumOf(DOMAIN all_coin_market_caps,
                        [ c \in DOMAIN all_coin_market_caps |-> all_coin_market_caps[c][d] ])
  /\ "TOTAL" \in Columns(df) =>
        /\ Rows \subseteq DOMAIN total_market_cap.series
        /\ \A c \in DOMAIN individual_coin_market_caps :
              /\ c \in Columns(df)
              /\ Rows \subseteq DOMAIN individual_coin_market_caps[c]
              /\ \A d \in Rows : df.col[c][d] = individual_coin_market_caps[c][d]
        /\ \A c \in Columns(df) : DOMAIN df.col[c] = Rows
        /\ \A d \in Rows : df.col["TOTAL"][d] = total_market_cap.series[d]

\* C8 witness: a finished table with TOTAL2 whose rows are fewer than the
\* dates of one of its inputs, over a TOTAL that dropped dates of one of its own
C8_Witness ==
  /\ pc = "done" /\ "TOTAL2" \in Columns(df) /\ Rows # {}
  /\ \E c \in DOMAIN individual_coin_market_caps :
       ~(DOMAIN individual_coin_market_caps[c] \subseteq Rows)
  /\ \E c \in DOMAIN all_coin_market_caps :
       ~(DOMAIN all_coin_market_caps[c] \subseteq DOMAIN total_market_cap.series)

\* C9: whenever a request is about to be issued and one was issued before in
\* this run, a sleep has run since that request; and while the first pass
\* fetches the coin at position i, the coins fetched so far are exactly those
\* before it in the basket.
C9_Paced ==
  /\ (CanTry /\ anyReq) => slept
  /\ (pc = "agg_loop" /\ fpc # "call") =>
        \A k \in 1..N : (cache[TOP_10_COINS[k]] # Absent) <=> (k < i)

\* C9 witness: a request of the script's own pass about to follow a pause, and
\* a retry about to follow a backoff sleep
C9_Witness ==
  /\ CanTry /\ anyReq /\ slept
  /\ pc = "main_loop" /\ i = N /\ retries >= 1

\* both passes loaded the same assets
SameAssets == DOMAIN all_coin_market_caps = DOMAIN individual_coin_market_caps

\* both passes loaded the same series
SameSeries == all_coin_market_caps = individual_coin_market_caps

OthersIsTenthOfBasket ==
  /\ \A d \in Rows :
        /\ df.col["TOTAL"][d] * 100 = df.col["SUM_TOP_10"][d] * BufferPercent
        /\ df.col["OTHERS"][d] * 100 = df.col["SUM_TOP_10"][d] * (BufferPercent - 100)
  /\ SameValue(RatioColumn(df, "OTHERS"), Rows)
  /\ \A d \in Rows : EqualMeans(RatioColumn(df, "OTHERS"), Rows, d)
  /\ summary.others_trend = "Bearish"

====
